---------------------------- MODULE Spec2Model ----------------------------
(***************************************************************************)
(* A model of the SPJIMR PGPM RAG chat backend:                            *)
(*   - the pipeline orchestrator and its four stage nodes                  *)
(*     (langgraph/workflow.ts, nodes/queryValidation.ts, retrieval.ts,     *)
(*     contextCheck.ts, generation.ts)                     -> SpecPipe     *)
(*   - the bounded conversation memory (shared/conversationMemory.ts)      *)
(*                                                         -> SpecMem      *)
(*   - the chat server's two request handlers running concurrently over    *)
(*     shared sessions and the module-level stream callback (server.ts)    *)
(*                                                         -> Spec         *)
(* Confidence values are kept in hundredths (0.3 is 30).  Values that come *)
(* out of JSON.parse keep their JavaScript type: the code reads them       *)
(* without checking it.                                                    *)
(***************************************************************************)
EXTENDS Integers, Sequences, FiniteSets, TLC

VARIABLES
  \* ---- one request through the pipeline (SpecPipe)
  query,        \* the composite query handed to workflow.invoke
  pc,           \* the orchestrator's position
  state,        \* the RAGState record threaded through the stages
  stages,       \* the stages entered so far, then "catch" if the catch block ran
  calls,        \* the external calls made so far (classifier, search, judge, ...)
  answered,     \* what the classifier and the judge answered, in order
  genOut,       \* what generationNode returned (or <<>> when it has not returned)
  filters,      \* the metadata filter of each similarity search made so far, in order
  streamed,     \* the tokens handed to the stream callback so far, in order
  \* ---- one ConversationMemory object (SpecMem)
  history,      \* ConversationMemory.history
  added,        \* every turn added since construction or the last clear()
  composed,     \* the last buildCompositeQuery call on the history as it is now (or <<>>)
  \* ---- the server (Spec)
  genStreamCallback,  \* generation.ts module variable: 0 (undefined) or the request whose sink it is
  sessions,     \* SPJIMRChatServer.sessions: session id -> its memory object (0: no entry)
  memories,     \* the ConversationMemory objects constructed so far
  req,          \* per request, numbered in arrival order: the handler's locals and position
  events,       \* per request: the frames written to its response, in order
  now           \* Date.now(), in half hours

pipeVars == <<query, pc, state, stages, calls, answered, genOut, filters, streamed>>
memVars  == <<history, added, composed>>
srvVars  == <<genStreamCallback, sessions, memories, req, events, now>>
vars     == <<query, pc, state, stages, calls, answered, genOut, filters, streamed, history, added, composed,
              genStreamCallback, sessions, memories, req, events, now>>

----------------------------------------------------------------------------
(* JavaScript values as they come out of JSON.parse, and the operators the *)
(* code applies to them.                                                   *)

Num(n)  == [t |-> "num", n |-> n]
Bool(b) == [t |-> "bool", b |-> b]
Str(s)  == [t |-> "str", s |-> s]
Undef   == [t |-> "undef"]

\* ToBoolean
Truthy(v) ==
  CASE v.t = "bool"  -> v.b
    [] v.t = "num"   -> v.n # 0
    [] v.t = "str"   -> v.s # ""
    [] v.t = "undef" -> FALSE

\* a || b  and  a && b
JsOr(a, b)  == IF Truthy(a) THEN a ELSE b
JsAnd(a, b) == IF Truthy(a) THEN b ELSE a

\* a >= n for a number n in hundredths; the model's strings are not numeric,
\* so they and undefined convert to NaN and compare false
JsGe(a, n) ==
  CASE a.t = "num"   -> a.n >= n
    [] a.t = "bool"  -> (IF a.b THEN 100 ELSE 0) >= n
    [] a.t = "str"   -> FALSE
    [] a.t = "undef" -> FALSE

----------------------------------------------------------------------------
(* Response texts.                                                         *)

NOT_RELEVANT        == "I can only answer questions about the SPJIMR PGPM program. Please ask about admissions, curriculum, fees, placements, or eligibility."
NO_INFORMATION      == "I don't have enough information to answer this specific question about the PGPM program. Please contact SPJIMR directly for more details."
VERIFICATION_FAILED == "I'm having trouble processing this request right now. Please try rephrasing your question or contact SPJIMR directly."
ERROR_RESPONSE      == "I apologize, but I encountered an error while processing your question. Please try again or contact SPJIMR directly for assistance."
DurationSentence(months) == "The SPJIMR PGPM is " \o months \o ". It includes 2 months online, 12 months on-campus, and 4 months for social/start-up projects and international immersion. Please verify with SPJIMR for the latest details."


----------------------------------------------------------------------------
(* Texts.  A document's pageContent is the sequence of its words and       *)
(* whitespace runs, so that length, trim and whitespace normalisation are  *)
(* computed; which keywords a text contains (String.includes on the        *)
(* lower-cased text) is tabulated with the text.                           *)

IsWs(tok) == tok \in {" ", "  ", "\n", "\n\n", "\t"}

RECURSIVE TextLen(_)
TextLen(toks) == IF toks = <<>> THEN 0 ELSE Len(Head(toks)) + TextLen(Tail(toks))

RECURSIVE TrimLeft(_)
TrimLeft(toks) ==
  IF toks # <<>> /\ IsWs(Head(toks)) THEN TrimLeft(Tail(toks)) ELSE toks

RECURSIVE TrimRight(_)
TrimRight(toks) ==
  IF toks # <<>> /\ IsWs(toks[Len(toks)])
    THEN TrimRight(SubSeq(toks, 1, Len(toks) - 1)) ELSE toks

\* String.prototype.trim
Trim(toks) == TrimRight(TrimLeft(toks))

\* s.substring(0, n) / s.slice(0, n): the whole text when it is no longer than
\* n, otherwise its longest prefix of whole tokens within n characters
RECURSIVE Prefix(_, _)
Prefix(toks, n) ==
  IF toks = <<>> \/ Len(Head(toks)) > n THEN <<>>
  ELSE <<Head(toks)>> \o Prefix(Tail(toks), n - Len(Head(toks)))

\* s.replace(/\s+/g, ' '): every whitespace run becomes one blank
CollapseWs(toks) == [i \in 1..Len(toks) |-> IF IsWs(toks[i]) THEN " " ELSE toks[i]]

----------------------------------------------------------------------------
(* The composite queries the pipeline is run on, with what the code's      *)
(* patterns say of each.                                                   *)

Q_FEE   == "What is the total PGPM fee?"
Q_DUR   == "How long is PGPM?"
Q_MORE  == "tell me more"
Q_TERM  == "abhyudaya"
Q_OFF   == "What is the weather today?"
Q_STATS == "give me all placement stats"
Q_HI    == "hi"
\* a question with the duration and the social-project intent
Q_MIX   == "how long is abhyudaya?"

\* The composite query builder (shared/conversation.ts, queryHeuristics.ts,
\* ConversationMemory.getRecentContext): a memory is the sequence of its turns.

\* the answer stored with a question
AnswerTo(q) == IF q = "fees?" THEN "The total fee is Rs. 21,00,000." ELSE "There is no more to tell."

\* the questions buildCompositeQuery is called with
ComposeQuestions ==
  {"", "  ", "abhyudaya", "Abhyudaya", " docc ", "abhyudaya project",
   "tell me more", "Tell me more", "tell  me more", "more", "fees?", " fees? "}

\* String.prototype.trim and toLowerCase on the strings of the model
StrTrim(s) ==
  CASE s = "  "      -> ""
    [] s = " docc "  -> "docc"
    [] s = " fees? " -> "fees?"
    [] OTHER         -> s
StrLower(s) ==
  CASE s = "Abhyudaya"    -> "abhyudaya"
    [] s = "Tell me more" -> "tell me more"
    [] s = Q_FEE          -> "what is the total pgpm fee?"
    [] s = Q_DUR          -> "how long is pgpm?"
    [] s = Q_OFF          -> "what is the weather today?"
    [] OTHER              -> s

\* queryHeuristics.ts
normalize(s) == StrTrim(StrLower(s))

KNOWN_TERMS ==
  {"abhyudaya", "docc", "sitaras", "samavesh", "intex", "aicte", "aacsb", "amba",
   "ppt", "cis", "mccombs", "insead", "cornell", "michigan", "barcelona",
   "reutlingen", "esic", "esb"}

\* the strings the four anchored patterns of isFollowUpQuery match
FollowUpPhrases ==
  {"longer", "more", "elaborate", "tell me more", "expand", "detail", "details",
   "what else", "any other", "additional", "anything else",
   "it", "this", "that", "the program", "the course"} \cup
  {v \o " " \o o : v \in {"give me", "show me", "tell me"},
                    o \in {"more", "all", "everything", "details"}}

isFollowUpQuery(q) == normalize(q) \in FollowUpPhrases

\* history.slice(-turnCount)
SliceLast(h, n) == IF Len(h) <= n THEN h ELSE SubSeq(h, Len(h) - n + 1, Len(h))

RenderTurn(turn) == "Q: " \o turn.question \o "\nA: " \o turn.answer

\* turns.map(render).join("\n\n")
RECURSIVE JoinTurns(_)
JoinTurns(turns) ==
  IF turns = <<>> THEN ""
  ELSE IF Len(turns) = 1 THEN RenderTurn(turns[1])
  ELSE RenderTurn(Head(turns)) \o "\n\n" \o JoinTurns(Tail(turns))

getRecentContext(h, turnCount) == JoinTurns(SliceLast(h, turnCount))

FollowUpWithContext(recentContext, q) ==
  "Previous conversation context:\n" \o recentContext \o "\n\nCurrent user request: " \o q
    \o "\n\nNote: This appears to be a follow-up query asking for more detailed information about the previously discussed SPJIMR PGPM topics."
FollowUpAlone(q) ==
  "User request: " \o q \o " (Note: This appears to be a request for detailed SPJIMR PGPM information)"

\* a variant of buildCompositeQuery that tests the follow-up patterns first
\* and reads three turns
buildCompositeQuery_followUpFirst(question, h) ==
  LET q == StrTrim(question)
  IN IF q = "" THEN q
     ELSE IF isFollowUpQuery(q) \/ normalize(q) \in KNOWN_TERMS
       THEN LET recentContext == getRecentContext(h, 3)
            IN IF recentContext # "" THEN FollowUpWithContext(recentContext, q)
               ELSE FollowUpAlone(q)
     ELSE LET recentContext == getRecentContext(h, 2)
          IN IF recentContext # "" THEN recentContext \o "\n\nUser: " \o q ELSE q

buildCompositeQuery(question, h) ==
  LET q == StrTrim(question)
  IN IF q = "" THEN q
     ELSE IF normalize(q) \in KNOWN_TERMS THEN q
     ELSE IF isFollowUpQuery(q)
       THEN LET recentContext == getRecentContext(h, 5)
            IN IF recentContext # "" THEN FollowUpWithContext(recentContext, q)
               ELSE FollowUpAlone(q)
     ELSE LET recentContext == getRecentContext(h, 2)
          IN IF recentContext # "" THEN recentContext \o "\n\nUser: " \o q ELSE q

\* a turn a session holds before the follow-up is asked
PriorTurn == [question |-> "What is PGPM?", answer |-> "A management programme."]
\* what the server hands to the pipeline for "tell me more" in that session
Q_MORE_CTX == buildCompositeQuery(Q_MORE, <<PriorTurn>>)

\* the turn a session holds after the off-topic question was answered
OffTopicTurn == [question |-> Q_OFF, answer |-> NOT_RELEVANT]
\* what the server hands to the pipeline when the question is asked again
Q_OFF_CTX == buildCompositeQuery(Q_OFF, <<OffTopicTurn>>)

Queries == {Q_FEE, Q_DUR, Q_MORE, Q_MORE_CTX, Q_TERM, Q_OFF, Q_STATS, Q_HI, Q_MIX, Q_OFF_CTX}

\* the keywords the lower-cased query contains (query.toLowerCase().includes(k))
QueryHas(q) ==
  CASE q = Q_FEE   -> {"fee", "fee?", "pgpm", "the", "total", "what"}
    [] q = Q_DUR   -> {"how", "long", "pgpm", "pgpm?"}
    [] q = Q_MORE  -> {"more", "tell"}
    [] q = Q_MORE_CTX -> {"about", "information", "management", "more", "pgpm",
                          "spjimr", "tell", "the", "what"}
    [] q = Q_TERM  -> {"abhyudaya"}
    [] q = Q_OFF   -> {"the", "today?", "weather", "what"}
    [] q = Q_STATS -> {"all", "give", "placement", "stats"}
    [] q = Q_HI    -> {}
    [] q = Q_MIX   -> {"abhyudaya", "abhyudaya?", "how", "long"}
    [] q = Q_OFF_CTX -> {"about", "admission", "admissions,", "answer", "ask", "can",
                         "curriculum", "curriculum,", "eligibility", "fee", "fees",
                         "fees,", "only", "pgpm", "placement", "placements,", "please",
                         "program.", "questions", "spjimr", "the", "today?", "weather",
                         "what"}

\* queryLower.split(' ').filter(term => term.length > 2)
QueryTerms(q) ==
  CASE q = Q_FEE   -> <<"what", "the", "total", "pgpm", "fee?">>
    [] q = Q_DUR   -> <<"how", "long", "pgpm?">>
    [] q = Q_MORE  -> <<"tell", "more">>
    [] q = Q_MORE_CTX -> <<"previous", "conversation", "context:\nq:", "what", "pgpm?\na:",
                           "management", "programme.\n\ncurrent", "user", "request:",
                           "tell", "more\n\nnote:", "this", "appears", "follow-up",
                           "query", "asking", "for", "more", "detailed", "information",
                           "about", "the", "previously", "discussed", "spjimr", "pgpm",
                           "topics.">>
    [] q = Q_TERM  -> <<"abhyudaya">>
    [] q = Q_OFF   -> <<"what", "the", "weather", "today?">>
    [] q = Q_STATS -> <<"give", "all", "placement", "stats">>
    [] q = Q_HI    -> <<>>
    [] q = Q_MIX   -> <<"how", "long", "abhyudaya?">>
    [] q = Q_OFF_CTX -> <<"what", "the", "weather", "today?\na:", "can", "only", "answer",
                          "questions", "about", "the", "spjimr", "pgpm", "program.",
                          "please", "ask", "about", "admissions,", "curriculum,", "fees,",
                          "placements,", "eligibility.\n\nuser:", "what", "the",
                          "weather", "today?">>

\* shared/queryHeuristics.ts
isKnownPGPMTerm(q) == q \in {Q_TERM}
hasRelevantKeywords(q) ==
  QueryHas(q) \cap {"spjimr", "pgpm", "post graduate programme", "management",
                    "admission", "eligibility", "curriculum", "fees", "placement",
                    "duration", "campus", "accreditation", "ranking", "faculty"} # {}

\* /\b(pgpm|spjimr|mba)\b/i.test(query)
MentionsProgramme(q) == q \in {Q_FEE, Q_DUR, Q_MORE_CTX, Q_OFF_CTX}
\* query.trim().length <= 3
VeryShort(q) == Len(q) <= 3

\* generation.ts: the intent patterns of the salvage branches
GenIsFollowUp(q)   == q \in {Q_MORE}
GenIsStatsQuery(q) == q \in {Q_STATS}
GenIsBroadQuery(q) == q \in {}
WantsDuration(q)   == q \in {Q_DUR, Q_MIX}
GenWantsSocial(q)  == q \in {Q_TERM, Q_MIX}

\* retrieval.ts: the intent patterns of the booster pass
RetWantsSocial(q) == q \in {Q_TERM, Q_MIX}
IsAmbiguous(q)    == q \in {Q_TERM, Q_HI, Q_MORE_CTX, Q_OFF_CTX}
IsSpecificTerm(q) == q \in {Q_TERM}

\* queryHeuristics.ts: isStatsQuery and isBroadInformationQuery
isStatsQuery(q)            == q \in {Q_STATS}
isBroadInformationQuery(q) == q \in {Q_MORE_CTX}

\* normalize(q).split(/\s+/).filter(word => word.length > 2).length
QueryWordCount(q) ==
  CASE q = Q_FEE      -> 5
    [] q = Q_DUR      -> 3
    [] q = Q_MORE     -> 2
    [] q = Q_MORE_CTX -> 29
    [] q = Q_TERM     -> 1
    [] q = Q_OFF      -> 4
    [] q = Q_STATS    -> 4
    [] q = Q_HI       -> 0
    [] q = Q_MIX      -> 3
    [] q = Q_OFF_CTX  -> 26

baseContext == "SPJIMR PGPM program management"
StatsContext ==
  "PGPM program statistics data numbers figures placement salary fees admission criteria duration curriculum comprehensive information"
BroadContext ==
  "PGPM program complete information overview summary comprehensive details curriculum admission placement fees faculty campus facilities"
FollowUpContext ==
  "PGPM program detailed information comprehensive overview curriculum admission placement fees salary statistics faculty campus duration"
AbhyudayaExpansion ==
  "PGPM Abhyudaya social projects community underprivileged local engagement development citizenship DoCC"
CurriculumExpansion ==
  "curriculum courses subjects modules syllabus academic program structure"
PlacementExpansion ==
  "placement job career opportunities salary companies recruitment"

\* the domain expansions of a query that needs enhancement: those whose key
\* the query holds, or whose first four letters a word of it holds ("curr"
\* in "current"), in the order of the table
domainExpansions(q) ==
  CASE q = Q_STATS    -> <<PlacementExpansion>>
    [] q = Q_MORE_CTX -> <<CurriculumExpansion>>
    [] OTHER          -> <<>>

\* the first entry of shortQueryExpansions whose key the query holds
shortQueryExpansions(q) ==
  IF "abhyudaya" \in QueryHas(q) THEN <<AbhyudayaExpansion>> ELSE <<>>

RECURSIVE JoinWords(_)
JoinWords(texts) ==
  IF Len(texts) = 1 THEN texts[1] ELSE Head(texts) \o " " \o JoinWords(Tail(texts))

\* enhanceQuery: the words put before the original query in what it returns
\* (<<>> when it returns the original query)
Enhancement(q) ==
  LET needsEnhancement ==
        \/ Len(q) < 20
        \/ QueryWordCount(q) < 3
        \/ {"pgpm", "spjimr"} \cap QueryHas(q) = {}
        \/ isFollowUpQuery(q)
        \/ isStatsQuery(q)
        \/ isBroadInformationQuery(q)
      expansions == JoinWords(<<baseContext>> \o domainExpansions(q))
  IN IF ~needsEnhancement THEN <<>>
     ELSE IF isStatsQuery(q) THEN <<StatsContext>>
     ELSE IF isBroadInformationQuery(q) THEN <<BroadContext>>
     ELSE IF isFollowUpQuery(q) THEN <<FollowUpContext>>
     ELSE IF QueryWordCount(q) <= 2 /\ shortQueryExpansions(q) # <<>>
       THEN shortQueryExpansions(q)
     ELSE IF Len(expansions) + 1 + Len(q) > 200 THEN <<baseContext>>
     ELSE <<expansions>>

\* retrieval.ts: the keywords createRetrievalFilter tests
FilterKeywords ==
  {"admission", "eligibility", "fee", "cost", "payment", "placement", "job",
   "salary", "curriculum", "course", "subject"}

\* the filter keywords the lower-cased texts of enhanceQuery hold
EnhancementHas(text) ==
  CASE text = StatsContext    -> {"placement", "salary", "fee", "admission", "curriculum"}
    [] text = BroadContext    -> {"curriculum", "admission", "placement", "fee"}
    [] text = FollowUpContext -> {"curriculum", "admission", "placement", "fee", "salary"}
    [] OTHER                  -> {}

\* the filter keywords the lower-cased search query holds
SearchQueryHas(q) ==
  (QueryHas(q) \cap FilterKeywords)
    \cup UNION {EnhancementHas(Enhancement(q)[i]) : i \in 1..Len(Enhancement(q))}

\* createRetrievalFilter, on the keywords its argument holds
createRetrievalFilter(has) ==
  LET baseFilter == [program |-> "PGPM"]
  IN IF {"admission", "eligibility"} \cap has # {} THEN baseFilter @@ [type |-> "admissions"]
     ELSE IF {"fee", "cost", "payment"} \cap has # {} THEN baseFilter @@ [type |-> "fees"]
     ELSE IF {"placement", "job", "salary"} \cap has # {} THEN baseFilter @@ [type |-> "placements"]
     ELSE IF {"curriculum", "course", "subject"} \cap has # {} THEN baseFilter @@ [type |-> "curriculum"]
     ELSE baseFilter

\* the filter of the retriever, for every query of the model
RetrieverFilters == [q \in Queries |-> createRetrievalFilter(SearchQueryHas(q))]
RetrieverFilter(q) == RetrieverFilters[q]
\* performDirectKeywordSearch searches with { program: "PGPM" }
KeywordFilter == [program |-> "PGPM"]

----------------------------------------------------------------------------
(* The corpus the similarity search draws from.                            *)

\* the fee paragraph (198 characters), a blank line, and a closing sentence
DocFees ==
  [pageContent |-> <<"Total", " ", "fee", " ", "21,00,000", " ", "payable", " ", "by", " ", "every", " ", "PGPM", " ", "participant", " ", "in", " ", "three", " ", "instalments", " ", ":", " ", "one", " ", "third", " ", "on", " ", "joining,", " ", "one", " ", "third", " ", "when", " ", "phase", " ", "two", " ", "begins,", " ", "and", " ", "one", " ", "third", " ", "prior", " ", "to", " ", "overseas", " ", "immersion,", " ", "paid", " ", "to", " ", "bursar", " ", "by", " ", "draft", "\n\n", "Hostel", " ", "charges", " ", "are", " ", "billed", " ", "apart.">>,
   has |-> {"fee", "pgpm", "total"}, sectionHas |-> {"fee"}, months |-> <<>>,
   source |-> "fees.md", type |-> "fees"]
\* the same paragraph with other whitespace and another closing sentence: it
\* differs from DocFees within and after the first 200 characters, but not in
\* the normalised first 200
DocFeesCopy ==
  [pageContent |-> <<"\n", "Total", "  ", "fee", " ", "21,00,000", " ", "payable", " ", "by", " ", "every", " ", "PGPM", " ", "participant", " ", "in", " ", "three", " ", "instalments", " ", ":", " ", "one", " ", "third", " ", "on", " ", "joining,", " ", "one", " ", "third", " ", "when", " ", "phase", " ", "two", " ", "begins,", " ", "and", " ", "one", " ", "third", " ", "prior", " ", "to", " ", "overseas", " ", "immersion,", " ", "paid", " ", "to", " ", "bursar", " ", "by", " ", "draft", "\n\n", "Mess", " ", "charges", " ", "are", " ", "billed", " ", "apart.">>,
   has |-> {"fee", "pgpm", "total"}, sectionHas |-> {"fee"}, months |-> <<>>,
   source |-> "fees-copy.md", type |-> "fees"]
DocDur18 ==
  [pageContent |-> <<"The", " ", "PGPM", " ", "is", " ", "an", " ", "18-month", " ", "AICTE-approved", " ", "General", " ", "Management", " ", "programme">>,
   has |-> {"management", "month", "pgpm", "the"}, sectionHas |-> {"pgpm"}, months |-> <<"18-month">>,
   source |-> "about.md", type |-> "general"]
DocDur15 ==
  [pageContent |-> <<"Earlier", " ", "batches", " ", "followed", " ", "a", " ", "15-month", " ", "PGPM", " ", "schedule", " ", "on", " ", "campus">>,
   has |-> {"campus", "month", "pgpm"}, sectionHas |-> {}, months |-> <<"15-month">>,
   source |-> "archive.md", type |-> "general"]
DocSocial ==
  [pageContent |-> <<"Abhyudaya", " ", "and", " ", "DoCC", " ", "are", " ", "social", " ", "projects", " ", "serving", " ", "the", " ", "underprivileged", " ", "community">>,
   has |-> {"abhyudaya", "community", "docc", "social", "the", "underprivileged"}, sectionHas |-> {"social"}, months |-> <<>>,
   source |-> "about.md", type |-> "general"]
\* too short to be kept
DocShort ==
  [pageContent |-> <<"See", " ", "the", " ", "PGPM", " ", "brochure">>,
   has |-> {"pgpm", "the"}, sectionHas |-> {}, months |-> <<>>,
   source |-> "brochure.md", type |-> "general"]

DocAdm ==
  [pageContent |-> <<"Admissions", " ", "open", " ", "in", " ", "March;", " ", "shortlisted", " ", "applicants", " ", "sit", " ", "interviews", " ", "in", " ", "Mumbai">>,
   has |-> {"admission", "can"}, sectionHas |-> {"admission"}, months |-> <<>>,
   source |-> "admissions.md", type |-> "admissions"]

\* every stored chunk carries program "PGPM" and the type its file name gives
Corpus == {DocFees, DocFeesCopy, DocDur18, DocDur15, DocSocial, DocShort, DocAdm}

\* the longest hit list one similarity search returns in the model
MaxHits == 2

\* what one similarity search may return: any list of distinct documents
HitLists ==
  {s \in UNION {[1..n -> Corpus] : n \in 0..MaxHits} :
     \A i, j \in 1..Len(s) : i # j => s[i] # s[j]}

\* match_documents: WHERE metadata @> filter
Satisfies(doc, filter) == "type" \in DOMAIN filter => doc.type = filter.type

\* the filters of the model's queries, and what one similarity search with
\* each of them may return
HitListsByFilter ==
  [filter \in {RetrieverFilter(q) : q \in Queries} \cup {KeywordFilter} |->
     {s \in HitLists : \A i \in 1..Len(s) : Satisfies(s[i], filter)}]
HitListsFor(filter) == HitListsByFilter[filter]

----------------------------------------------------------------------------
(* What the external services may answer.                                  *)

\* the isRelevant / hasAnswer field of the parsed JSON: a boolean, missing, or
\* of another type
FlagValues == {Bool(TRUE), Bool(FALSE), Undef, Str("yes")}
\* the confidence field of the classifier's parsed JSON
ClassifierConfidences == {Num(90), Num(150), Undef}
\* the confidence field of the judge's parsed JSON
JudgeConfidences == {Num(10), Num(25), Num(90), Num(150), Num(-10), Undef, Str("high")}

\* chain.invoke rejects; or the content is not JSON; or it parses
ClassifierOutputs ==
  {[kind |-> "throw"], [kind |-> "text"]} \cup
  {[kind |-> "json", isRelevant |-> r, confidence |-> c] :
     r \in FlagValues, c \in ClassifierConfidences}
JudgeOutputs ==
  {[kind |-> "throw"], [kind |-> "text"]} \cup
  {[kind |-> "json", hasAnswer |-> h, confidence |-> c] :
     h \in FlagValues, c \in JudgeConfidences}

\* the content is strict JSON of the required shape: it parses, the verdict
\* field is a boolean and the confidence a number
WellShaped(out, flag) ==
  /\ out.kind = "json"
  /\ out[flag].t = "bool"
  /\ out.confidence.t = "num"

\* what is noted of an answer of the classifier or the judge: who answered, how,
\* whether it is of the required shape and whether its verdict is a plain false
Answer(by, out, flag) ==
  [by |-> by, kind |-> out.kind, shaped |-> WellShaped(out, flag),
   no |-> out.kind = "json" /\ out[flag] = Bool(FALSE)]

\* retrieval.ts: the condition of the booster pass, but for the result count
BoosterIntent(q) ==
  WantsDuration(q) \/ RetWantsSocial(q) \/ IsAmbiguous(q) \/ IsSpecificTerm(q)

\* the generation call rejects, or returns a text (empty, short, long)
GenTexts == {"", "Not known.", "The total fee of the PGPM is Rs. 21,00,000. Please verify with SPJIMR."}
\* the tokens the model streams for a text: their concatenation is the text
TokensOf(t) ==
  CASE t = ""           -> <<>>
    [] t = "Not known." -> <<"Not", " known.">>
    [] OTHER            -> <<"The total fee of the PGPM", " is Rs. 21,00,000.",
                             " Please verify with SPJIMR.">>
\* with `tokens` what handleLLMNewToken is called with during the call: before
\* a call rejects, nothing or the beginning of a text
GenOutputs ==
  {[kind |-> "throw", tokens |-> ts] : ts \in {<<>>, <<"The total fee of the PGPM">>}} \cup
  {[kind |-> "text", text |-> t, tokens |-> TokensOf(t)] : t \in GenTexts}

----------------------------------------------------------------------------
(* Node 1: query validation.                                               *)

ValidationFailed(msg) == [ok |-> FALSE, error |-> "ValidationError", message |-> msg]

queryValidationNode(st, out) ==
  IF out.kind = "throw" THEN ValidationFailed("Query validation failed")
  ELSE IF out.kind = "text" THEN ValidationFailed("Failed to parse validation response")
  ELSE
    LET fallbackRelevant == \/ hasRelevantKeywords(st.query)
                            \/ MentionsProgramme(st.query)
                            \/ VeryShort(st.query)
                            \/ isKnownPGPMTerm(st.query)
        updateState == [isRelevant |-> JsOr(out.isRelevant, Bool(fallbackRelevant)),
                        confidence |-> out.confidence]
    IN [ok |-> TRUE,
        upd |-> IF Truthy(out.isRelevant)
                  THEN updateState @@ [sources |-> <<>>] ELSE updateState]

----------------------------------------------------------------------------
(* Node 2: retrieval.                                                      *)

\* doc.pageContent.slice(0, 200) of every document of the corpus
Slice200 == [d \in Corpus |-> Prefix(d.pageContent, 200)]

\* the merge of a second search into retrievedDocs, keyed by slice(0, 200)
RECURSIVE MergeHits(_, _)
MergeHits(docs, extra) ==
  IF extra = <<>> THEN docs
  ELSE LET d == Head(extra)
           dup == \E i \in 1..Len(docs) :
                    Slice200[docs[i]] = Slice200[d]
       IN MergeHits(IF dup THEN docs ELSE Append(docs, d), Tail(extra))

\* performDirectKeywordSearch: the hits whose content holds the term (in this
\* corpus a term occurs as a whole word wherever it occurs)
KeywordDocs(hits, term) == SelectSeq(hits, LAMBDA d : term \in d.has)

\* doc.pageContent.substring(0, 200).replace(/\s+/g, ' ').trim()
ContentHash(doc) == Trim(CollapseWs(Prefix(doc.pageContent, 200)))
ContentHashes == [d \in Corpus |-> ContentHash(d)]

\* doc.pageContent.trim().length of every document of the corpus
TrimmedLength == [d \in Corpus |-> TextLen(Trim(d.pageContent))]

\* the loop of deduplicateDocuments: uniqueDocs so far, the documents left
RECURSIVE DedupLoop(_, _)
DedupLoop(uniqueDocs, docs) ==
  IF docs = <<>> THEN uniqueDocs
  ELSE DedupLoop(IF \E i \in 1..Len(uniqueDocs) :
                      ContentHashes[uniqueDocs[i]] = ContentHashes[Head(docs)]
                   THEN uniqueDocs ELSE Append(uniqueDocs, Head(docs)),
                 Tail(docs))

\* a variant of deduplicateDocuments that keys on the raw first 200 characters
deduplicateDocuments_rawKey(docs) == MergeHits(<<>>, docs)

deduplicateDocuments(docs) == DedupLoop(<<>>, docs)

RECURSIVE TermScore(_, _)
TermScore(doc, terms) ==
  IF terms = <<>> THEN 0
  ELSE (IF Head(terms) \in doc.sectionHas THEN 2 ELSE 0)
       + (IF Head(terms) \in doc.has THEN 1 ELSE 0)
       + TermScore(doc, Tail(terms))

TypePreference(doc, q) ==
  CASE doc.type = "admissions" -> IF "admission" \in QueryHas(q) THEN 3 ELSE 0
    [] doc.type = "fees"       -> IF "fee" \in QueryHas(q) THEN 3 ELSE 0
    [] doc.type = "placements" -> IF "placement" \in QueryHas(q) THEN 3 ELSE 0
    [] doc.type = "curriculum" -> IF "curriculum" \in QueryHas(q) THEN 3 ELSE 0
    [] OTHER -> 0

Score(doc, q) == TermScore(doc, QueryTerms(q)) + TypePreference(doc, q)
Scores == [q \in Queries |-> [d \in Corpus |-> Score(d, q)]]

\* docs.sort((a, b) => scoreB - scoreA): a stable sort, higher scores first.
\* The document at place i goes before exactly the documents of lower score
\* and the later documents of equal score.
Rank(docs, i, q) ==
  1 + Cardinality({j \in 1..Len(docs) :
                     \/ Scores[q][docs[j]] > Scores[q][docs[i]]
                     \/ (Scores[q][docs[j]] = Scores[q][docs[i]] /\ j < i)})

reorderDocumentsByRelevance(docs, q) ==
  [k \in 1..Len(docs) |-> docs[CHOOSE i \in 1..Len(docs) : Rank(docs, i, q) = k]]

\* .map(source).filter((source, index, arr) => arr.indexOf(source) === index).slice(0, 3)
FirstOccurrence(docs, i) == \A j \in 1..(i - 1) : docs[j].source # docs[i].source

\* a variant of ExtractSources that keeps repeated sources
ExtractSources_keepsRepeats(docs) ==
  [k \in 1..(IF Len(docs) < 3 THEN Len(docs) ELSE 3) |-> docs[k].source]

ExtractSources(docs) ==
  LET firsts == SelectSeq([i \in 1..Len(docs) |-> [source |-> docs[i].source, first |-> FirstOccurrence(docs, i)]],
                          LAMBDA e : e.first)
  IN [k \in 1..(IF Len(firsts) < 3 THEN Len(firsts) ELSE 3) |-> firsts[k].source]

\* what the booster pass and the keyword pass can return; a pass that does
\* not run returns nothing
BoosterHits(q, primary) ==
  IF BoosterIntent(q) /\ Len(primary) < 4 THEN HitListsFor(RetrieverFilter(q)) ELSE {<<>>}
KeywordHits(q, primary, booster) ==
  IF IsSpecificTerm(q) /\ Len(MergeHits(primary, booster)) < 2
    THEN HitListsFor(KeywordFilter) ELSE {<<>>}

retrievalNode(st, out) ==
  IF out.kind = "throw"
    THEN [ok |-> FALSE, error |-> "RetrievalError", message |-> "Document retrieval failed"]
  ELSE
    LET q == st.query
        boosterRuns == BoosterIntent(q) /\ Len(out.primary) < 4
        boosted == IF boosterRuns THEN MergeHits(out.primary, out.booster) ELSE out.primary
        anchorRuns == IsSpecificTerm(q) /\ Len(boosted) < 2
        anchored == IF anchorRuns THEN MergeHits(boosted, KeywordDocs(out.keyword, q)) ELSE boosted
        filteredDocs == SelectSeq(deduplicateDocuments(anchored),
                                  LAMBDA d : TrimmedLength[d] > 50)
        orderedDocs == reorderDocumentsByRelevance(filteredDocs, q)
    IN [ok |-> TRUE,
        upd |-> [retrievedDocs |-> orderedDocs, sources |-> ExtractSources(orderedDocs)],
        searches |-> <<"search">> \o (IF boosterRuns THEN <<"booster">> ELSE <<>>)
                                  \o (IF anchorRuns THEN <<"keyword">> ELSE <<>>),
        filters |-> <<RetrieverFilter(q)>>
                      \o (IF boosterRuns THEN <<RetrieverFilter(q)>> ELSE <<>>)
                      \o (IF anchorRuns THEN <<KeywordFilter>> ELSE <<>>)]

----------------------------------------------------------------------------
(* Node 3: context check.                                                  *)

baseThreshold == 30
specificThreshold == 20

\* the table of getAdaptiveConfidenceThreshold, in its order
specificQueries ==
  << [keywords |-> {"fee", "cost", "price"},            indicators |-> {"fee", "cost", "rs.", "rupees", "lakh"}],
     [keywords |-> {"duration", "length", "time"},      indicators |-> {"month", "year", "duration"}],
     [keywords |-> {"eligibility", "requirement"},      indicators |-> {"eligib", "require", "criteria"}],
     [keywords |-> {"deadline", "date"},                indicators |-> {"deadline", "date", "last date"}],
     [keywords |-> {"salary", "package"},               indicators |-> {"salary", "lpa", "package", "compensation"}],
     [keywords |-> {"admission", "application"},        indicators |-> {"admission", "application", "apply"}],
     [keywords |-> {"curriculum", "subject", "course"}, indicators |-> {"curriculum", "subject", "course", "module"}],
     [keywords |-> {"placement", "job", "career"},      indicators |-> {"placement", "job", "career", "company"}] >>

\* the keywords the lower-cased concatenation of the documents contains (the
\* "Document N:" markers and "---" separators contain none of them)
ContextHas(docs) == UNION {docs[i].has : i \in 1..Len(docs)}

\* a variant of getAdaptiveConfidenceThreshold that looks at the query only
getAdaptiveConfidenceThreshold_keywordOnly(q, docs) ==
  IF \E i \in 1..Len(specificQueries) : specificQueries[i].keywords \cap QueryHas(q) # {}
    THEN specificThreshold ELSE baseThreshold

getAdaptiveConfidenceThreshold(q, docs) ==
  IF \E i \in 1..Len(specificQueries) :
       /\ specificQueries[i].keywords \cap QueryHas(q) # {}
       /\ specificQueries[i].indicators \cap ContextHas(docs) # {}
    THEN specificThreshold ELSE baseThreshold

\* docs.map((doc, index) => `Document ${index + 1}:\n${doc.pageContent}`).join("\n---\n"):
\* the empty sequence is the empty string
DocsContent(docs) == [i \in 1..Len(docs) |-> [marker |-> i, pageContent |-> docs[i].pageContent]]

\* a variant of ContextFor that keeps the documents' text whatever the verdict
ContextFor_always(finalHasAnswer, docsContent) == docsContent

\* context: finalHasAnswer ? docsContent : ""
ContextFor(finalHasAnswer, docsContent) ==
  IF Truthy(finalHasAnswer) THEN docsContent ELSE <<>>

\* a variant of contextCheckNode without the early return for an empty document list
contextCheckNode_alwaysJudges(st, out) ==
  IF out.kind = "throw"
    THEN ValidationFailed("Context validation failed") @@ [judged |-> TRUE]
  ELSE IF out.kind = "text"
    THEN ValidationFailed("Failed to parse context validation response") @@ [judged |-> TRUE]
  ELSE
    LET finalHasAnswer == JsAnd(out.hasAnswer, Bool(JsGe(out.confidence, baseThreshold)))
    IN [ok |-> TRUE, judged |-> TRUE,
        upd |-> [hasAnswer |-> finalHasAnswer,
                 context |-> ContextFor(finalHasAnswer, DocsContent(st.retrievedDocs)),
                 confidence |-> out.confidence]]

contextCheckNode(st, out) ==
  IF st.retrievedDocs = <<>>
    THEN [ok |-> TRUE, judged |-> FALSE,
          upd |-> [hasAnswer |-> Bool(FALSE), context |-> <<>>, confidence |-> Num(0)]]
  ELSE IF out.kind = "throw"
    THEN ValidationFailed("Context validation failed") @@ [judged |-> TRUE]
  ELSE IF out.kind = "text"
    THEN ValidationFailed("Failed to parse context validation response") @@ [judged |-> TRUE]
  ELSE
    LET docsContent == DocsContent(st.retrievedDocs)
        confidenceThreshold == getAdaptiveConfidenceThreshold(st.query, st.retrievedDocs)
        finalHasAnswer == JsAnd(out.hasAnswer, Bool(JsGe(out.confidence, confidenceThreshold)))
    IN [ok |-> TRUE, judged |-> TRUE,
        upd |-> [hasAnswer |-> finalHasAnswer,
                 context |-> ContextFor(finalHasAnswer, docsContent),
                 confidence |-> out.confidence]]

----------------------------------------------------------------------------
(* Node 4: generation.                                                     *)

\* monthMatch[0] of a match of /(1[58])\s*-?month/gi: the flattened matches are
\* strings, so [0] is the first character of the matched text, which is "1"
FirstChar(match) == CASE match \in {"18-month", "15-month"} -> "1"
\* /18/.test(s)
Test18(s) == s \in {"18", "18-month", "18 month", "18month"}

\* .map(d => d.pageContent.match(...)).flat().filter(Boolean)
RECURSIVE MonthMatches(_)
MonthMatches(docs) ==
  IF docs = <<>> THEN <<>> ELSE Head(docs).months \o MonthMatches(Tail(docs))

\* a variant of Salvage that returns every salvage at confidence 0.3
Salvage_flatConfidence(out, conf, branch) ==
  IF out.kind = "throw"
    THEN [ok |-> TRUE, branch |-> "failed", call |-> "generate",
          upd |-> [response |-> VERIFICATION_FAILED, needsValidation |-> FALSE,
                   confidence |-> Num(10), errorMessage |-> "generation call failed"]]
    ELSE [ok |-> TRUE, branch |-> branch, call |-> "generate",
          upd |-> [response |-> out.text, needsValidation |-> TRUE, confidence |-> Num(30)]]

\* a grounded generation call outside the quality checks of case 3
Salvage(out, conf, branch) ==
  IF out.kind = "throw"
    THEN [ok |-> TRUE, branch |-> "failed", call |-> "generate",
          upd |-> [response |-> VERIFICATION_FAILED, needsValidation |-> FALSE,
                   confidence |-> Num(10), errorMessage |-> "generation call failed"]]
    ELSE [ok |-> TRUE, branch |-> branch, call |-> "generate",
          upd |-> [response |-> out.text, needsValidation |-> TRUE, confidence |-> Num(conf)]]

generationNode(st, out) ==
  LET q == st.query
      docs == st.retrievedDocs
      feeSalvage == /\ {"fee", "cost"} \cap QueryHas(q) # {}
                    /\ docs # <<>>
                    /\ \E i \in 1..Len(docs) :
                         docs[i].has \cap {"fee", "cost", "rs.", "lakh", "rupees"} # {}
      followSalvage == (GenIsFollowUp(q) \/ GenIsStatsQuery(q) \/ GenIsBroadQuery(q)) /\ docs # <<>>
      monthMatches == MonthMatches(docs)
      durationSalvage == WantsDuration(q) /\ monthMatches # <<>>
      socialSalvage == /\ GenWantsSocial(q)
                       /\ docs # <<>>
                       /\ \E i \in 1..Len(docs) :
                            docs[i].has \cap {"abhyudaya", "docc", "social", "community",
                                              "underprivileged", "citizenship"} # {}
  IN
  IF ~Truthy(st.isRelevant)
    THEN [ok |-> TRUE, branch |-> "notRelevant", call |-> "none",
          upd |-> [response |-> NOT_RELEVANT, needsValidation |-> FALSE, confidence |-> Num(100)]]
  ELSE IF ~Truthy(st.hasAnswer) \/ st.context = <<>>
    THEN IF feeSalvage THEN Salvage(out, 70, "fee")
         ELSE IF followSalvage THEN Salvage(out, 80, "followUp")
         ELSE IF durationSalvage
           THEN LET is18 == Test18(FirstChar(monthMatches[1]))
                IN [ok |-> TRUE, branch |-> "duration", call |-> "none",
                    upd |-> [response |-> DurationSentence(IF is18 THEN "18 months" ELSE "15 months"),
                             needsValidation |-> FALSE,
                             confidence |-> IF is18 THEN Num(90) ELSE Num(60)]]
         ELSE IF socialSalvage THEN Salvage(out, 75, "social")
         ELSE IF out.kind = "throw"
           THEN [ok |-> TRUE, branch |-> "static", call |-> "fallback",
                 upd |-> [response |-> NO_INFORMATION, needsValidation |-> FALSE,
                          confidence |-> Num(20)]]
           ELSE [ok |-> TRUE, branch |-> "graceful", call |-> "fallback",
                 upd |-> [response |-> out.text, needsValidation |-> FALSE,
                          confidence |-> Num(30)]]
  ELSE IF out.kind = "throw"
    THEN [ok |-> TRUE, branch |-> "failed", call |-> "generate",
          upd |-> [response |-> VERIFICATION_FAILED, needsValidation |-> FALSE,
                   confidence |-> Num(10), errorMessage |-> "generation call failed"]]
  ELSE IF out.text = "" \/ Len(out.text) < 20
    THEN [ok |-> FALSE, branch |-> "grounded", call |-> "generate",
          error |-> "GenerationError",
          message |-> "Generated response is too short or empty"]
  ELSE [ok |-> TRUE, branch |-> "grounded", call |-> "generate",
        upd |-> [response |-> out.text, needsValidation |-> TRUE,
                 confidence |-> JsOr(st.confidence, Num(80))]]

----------------------------------------------------------------------------
(* Node 5: response validation.  The node is registered with the graph but *)
(* the orchestrator does not call it.                                      *)

\* out: the validator call rejects, is not JSON, or parses
responseValidationNode(st, out) ==
  IF ~st.needsValidation
    THEN [ok |-> TRUE, upd |-> [response |-> st.response, needsValidation |-> FALSE]]
  ELSE IF st.response = "" \/ st.context = <<>>
    THEN [ok |-> TRUE, upd |-> [response |-> VERIFICATION_FAILED, needsValidation |-> FALSE,
                                confidence |-> Num(10)]]
  ELSE IF out.kind = "throw"
    THEN [ok |-> TRUE, upd |-> [response |-> VERIFICATION_FAILED, needsValidation |-> FALSE,
                                confidence |-> Num(10),
                                errorMessage |-> "validator call failed"]]
  ELSE IF out.kind = "text"
    THEN ValidationFailed("Failed to parse validation response")
  ELSE [ok |-> TRUE,
        upd |-> [response |-> st.response, needsValidation |-> FALSE,
                 \* Math.max(0.8, state.confidence || 0.8)
                 confidence |-> LET c == JsOr(st.confidence, Num(80))
                                IN CASE c.t = "num"  -> IF c.n > 80 THEN c ELSE Num(80)
                                     [] c.t = "bool" -> Num(100)
                                     [] OTHER        -> [t |-> "nan"]]]

----------------------------------------------------------------------------
(* The orchestrator: executeRAGWorkflowFallback, one step per awaited      *)
(* stage.                                                                  *)

InitialState(q) ==
  [query |-> q, isRelevant |-> Bool(FALSE), retrievedDocs |-> <<>>,
   hasAnswer |-> Bool(FALSE), context |-> <<>>, response |-> "",
   needsValidation |-> FALSE, confidence |-> Num(0), sources |-> <<>>]

\* variants of the definitions below, each wrong in one place
AfterValidate_alwaysRetrieve(st) == "retrieve"
MergeState_keepsOld(st, upd) == st @@ upd
ErrorState_zeroConfidence(q, message) ==
  [query |-> q, isRelevant |-> Bool(FALSE), retrievedDocs |-> <<>>,
   hasAnswer |-> Bool(FALSE), context |-> <<>>, response |-> ERROR_RESPONSE,
   needsValidation |-> FALSE, confidence |-> Num(0), sources |-> <<>>,
   errorMessage |-> message]

\* state = { ...state, ...result }
MergeState(st, upd) == upd @@ st

\* the catch block: the state is replaced, not merged
ErrorState(q, message) ==
  [query |-> q, isRelevant |-> Bool(FALSE), retrievedDocs |-> <<>>,
   hasAnswer |-> Bool(FALSE), context |-> <<>>, response |-> ERROR_RESPONSE,
   needsValidation |-> FALSE, confidence |-> Num(10), sources |-> <<>>,
   errorMessage |-> message]

\* where the orchestrator goes after a stage returned
AfterValidate(st) == IF Truthy(st.isRelevant) THEN "retrieve" ELSE "generate"
AfterGenerate(st) == "done"

\* a variant of AfterCatch that runs the failed stage again
AfterCatch_retries(name) == name

\* where the orchestrator goes after the catch block: it returns the error
\* state, and neither invoke nor executeRAGWorkflow sees a rejection
AfterCatch(name) == "done"

\* one stage of the orchestrator: the node's result merged, or the catch block
Stage(name, r, next) ==
  IF r.ok
    THEN /\ state' = MergeState(state, r.upd)
         /\ stages' = Append(stages, name)
         /\ pc' = next
    ELSE /\ state' = ErrorState(query, r.message)
         /\ stages' = stages \o <<name, "catch">>
         /\ pc' = AfterCatch(name)

Validate ==
  /\ pc = "validate"
  /\ \E out \in ClassifierOutputs :
       \E r \in {queryValidationNode(state, out)} :
          /\ Stage("validate", r, IF r.ok THEN AfterValidate(MergeState(state, r.upd)) ELSE "done")
          /\ calls' = Append(calls, "classifier")
          /\ answered' = Append(answered, Answer("classifier", out, "isRelevant"))
  /\ UNCHANGED <<query, genOut, filters, streamed>>
  /\ UNCHANGED memVars /\ UNCHANGED srvVars

\* the similarity search is unavailable or misconfigured, or the searches answer
RetrieveStep(out) ==
  \E r \in {retrievalNode(state, out)} :
    /\ Stage("retrieve", r, "contextCheck")
    /\ calls' = calls \o (IF r.ok THEN r.searches ELSE <<"search">>)
    /\ filters' = filters \o (IF r.ok THEN r.filters ELSE <<RetrieverFilter(query)>>)

Retrieve ==
  /\ pc = "retrieve"
  /\ \/ RetrieveStep([kind |-> "throw"])
     \/ \E p \in HitListsFor(RetrieverFilter(query)) :
          \E b \in BoosterHits(query, p) :
            \E k \in KeywordHits(query, p, b) :
              RetrieveStep([kind |-> "hits", primary |-> p, booster |-> b, keyword |-> k])
  /\ UNCHANGED <<query, answered, genOut, streamed>>
  /\ UNCHANGED memVars /\ UNCHANGED srvVars

ContextCheck ==
  /\ pc = "contextCheck"
  /\ \E out \in JudgeOutputs :
       \E r \in {contextCheckNode(state, out)} :
          /\ Stage("contextCheck", r, "generate")
          /\ calls' = IF r.judged THEN Append(calls, "judge") ELSE calls
          /\ answered' = IF r.judged THEN Append(answered, Answer("judge", out, "hasAnswer"))
                                     ELSE answered
  /\ UNCHANGED <<query, genOut, filters, streamed>>
  /\ UNCHANGED memVars /\ UNCHANGED srvVars

Generate ==
  /\ pc = "generate"
  /\ \E out \in GenOutputs :
       \E r \in {generationNode(state, out)} :
          /\ Stage("generate", r, IF r.ok THEN AfterGenerate(MergeState(state, r.upd)) ELSE "done")
          /\ calls' = IF r.call = "none" THEN calls ELSE Append(calls, r.call)
          /\ genOut' = IF r.ok THEN <<r.upd @@ [branch |-> r.branch]>> ELSE <<>>
          /\ streamed' = IF r.call = "none" THEN streamed ELSE streamed \o out.tokens
  /\ UNCHANGED <<query, answered, filters>>
  /\ UNCHANGED memVars /\ UNCHANGED srvVars

\* the variables of the other specifications, at rest
MemIdle == history = <<>> /\ added = <<>> /\ composed = <<>>
SrvIdle == /\ genStreamCallback = 0
           /\ sessions = <<>>
           /\ memories = <<>>
           /\ req = <<>>
           /\ events = <<>>
           /\ now = 0

InitPipe ==
  /\ query \in Queries
  /\ pc = "validate"
  /\ state = InitialState(query)
  /\ stages = <<>>
  /\ calls = <<>>
  /\ answered = <<>>
  /\ genOut = <<>>
  /\ filters = <<>>
  /\ streamed = <<>>
  /\ MemIdle /\ SrvIdle

NextPipe == Validate \/ Retrieve \/ ContextCheck \/ Generate

SpecPipe == InitPipe /\ [][NextPipe]_vars


-----------------------------------------------------------------------------
(* ConversationMemory on its own: one instance, any sequence of addTurn    *)
(* and clear.  `added` records the turns added since the last clear.       *)

maxHistoryLength == 10
MaxAdds == 12

Questions == {"fees?", "more"}

\* a variant of Shift that drops the newest turn
Shift_dropsNewest(h) == SubSeq(h, 1, Len(h) - 1)

\* Array.prototype.shift, for the array left behind
Shift(h) == Tail(h)

\* addTurn: push, then shift once when over capacity
addTurn(h, turn) ==
  LET pushed == Append(h, turn)
  IN IF Len(pushed) > maxHistoryLength THEN Shift(pushed) ELSE pushed

\* the pipeline at rest
PipeIdle == /\ query = ""
            /\ pc = "idle"
            /\ state = InitialState("")
            /\ stages = <<>>
            /\ calls = <<>>
            /\ answered = <<>>
            /\ genOut = <<>>
            /\ filters = <<>>
            /\ streamed = <<>>

AddTurn ==
  /\ Len(added) < MaxAdds
  /\ \E q \in Questions :
       LET turn == [question |-> q, answer |-> AnswerTo(q), timestamp |-> Len(added) + 1]
       IN /\ history' = addTurn(history, turn)
          /\ added' = Append(added, turn)
  /\ composed' = <<>>
  /\ UNCHANGED pipeVars /\ UNCHANGED srvVars

Clear ==
  /\ history' = <<>>
  /\ added' = <<>>
  /\ composed' = <<>>
  /\ UNCHANGED pipeVars /\ UNCHANGED srvVars

\* buildCompositeQuery(question, memory): the memory is read, not written
Compose ==
  /\ \E question \in ComposeQuestions :
       composed' = <<[question |-> question,
                      composite |-> buildCompositeQuery(question, history)]>>
  /\ UNCHANGED <<history, added>>
  /\ UNCHANGED pipeVars /\ UNCHANGED srvVars

InitMem == MemIdle /\ PipeIdle /\ SrvIdle

NextMem == AddTurn \/ Clear \/ Compose

SpecMem == InitMem /\ [][NextMem]_vars

-----------------------------------------------------------------------------
(* The chat server: requests handled concurrently on one event loop.  A    *)
(* step is what runs between two awaits; the pipeline appears as the       *)
(* awaits before generation, the start of generationNode, its tokens and   *)
(* its return.  A res.write of a frame may throw; a write that throws      *)
(* delivers nothing.                                                       *)

NumRequests == 2
MaxTokens == 1
MaxPings == 1
MaxTime == 3
\* sessionTimeout = 30 * 60 * 1000 ms, in half hours
sessionTimeout == 1

Requests == 1..NumRequests
SessionIds == {"s1", "s2"}
Kinds == {"stream", "buffered"}
\* req.body.question: a question, the empty string, a value that is not a
\* string, or no field at all
BodyQuestions == {Str("fees?"), Str(""), Num(7), Undef}

\* a variant of ValidQuestion that only tests the value's truthiness
ValidQuestion_truthyOnly(question) == Truthy(question)

\* the negation of (!question || typeof question !== 'string')
ValidQuestion(question) == Truthy(question) /\ question.t = "str"

NewRequest ==
  [pc |-> "new", kind |-> "none", session |-> "", question |-> Undef, mem |-> 0,
   seen |-> <<>>, overlapped |-> {}, enableStreaming |-> FALSE, produced |-> 0,
   fullResponse |-> <<>>, ping |-> FALSE, cancels |-> 0, closed |-> FALSE,
   disconnected |-> FALSE]

\* new ConversationMemory(), with the time of its construction noted (the
\* object itself holds no such field; lastActivity is absent until a turn
\* completes, here 0)
NewMemory(t) == [history |-> <<>>, lastActivity |-> 0, created |-> t]

Event(type, r) == [type |-> type, from |-> r]

\* the frames of a run of res.write calls of which the first k return
Written(r, types, k) == [i \in 1..k |-> Event(types[i], r)]

\* (memory as any).lastActivity || now
LastActivity(m, t) == IF m.lastActivity # 0 THEN m.lastActivity ELSE t

cleanupSessions(sess, mems, t) ==
  [sid \in DOMAIN sess |->
     IF sess[sid] # 0 /\ t - LastActivity(mems[sess[sid]], t) > sessionTimeout
       THEN 0 ELSE sess[sid]]

\* a request between its composite query and its addTurn
InFlight(a) == req[a].pc \in {"pipeline", "generating"}

\* buildCompositeQuery reads the memory now; overlapped records the requests
\* of the same session id that are in flight at this moment
BuildComposite(r, rq, mems) ==
  [rq EXCEPT !.seen = mems[rq.mem].history,
             !.overlapped = {a \in Requests \ {r} : InFlight(a) /\ req[a].session = rq.session}]

\* conversationMemory.addTurn(...) and lastActivity = Date.now()
Remember(mems, m, turn, t) ==
  [mems EXCEPT ![m].history = addTurn(@, turn), ![m].lastActivity = t]

\* a variant of Closing that writes `end` first
Closing_endFirst(failed) == IF failed THEN <<"end", "error">> ELSE <<"end">>

\* the writes after the inner try: the catch block's `error` when it failed,
\* then `end`
Closing(failed) == IF failed THEN <<"error", "end">> ELSE <<"end">>

\* the handler from the end of its inner try on, for a request whose frames
\* so far are evs: the first k closing writes return.  When all do, res.end()
\* and clearInterval(ping) follow; otherwise the outer catch finds the headers
\* sent and does nothing.
HandlerTail(r, rq, evs, failed, k) ==
  LET all == k = Len(Closing(failed))
  IN /\ events' = [events EXCEPT ![r] = evs \o Written(r, Closing(failed), k)]
     /\ req' = [req EXCEPT ![r] = [rq EXCEPT !.pc = IF ~all THEN "threw"
                                                   ELSE IF failed THEN "failed" ELSE "done",
                                             !.closed = all,
                                             !.ping = ~all,
                                             !.cancels = IF all THEN @ + 1 ELSE @]]

\* 400 INVALID_QUESTION
Reject(r, rq) ==
  /\ req' = [req EXCEPT ![r] = [rq EXCEPT !.pc = "rejected", !.closed = TRUE]]
  /\ UNCHANGED <<events, genStreamCallback>>

\* handleChatQuery up to its await: invoke without options clears the callback
StartBuffered(r, rq, mems) ==
  /\ req' = [req EXCEPT ![r] = [BuildComposite(r, rq, mems) EXCEPT !.pc = "pipeline"]]
  /\ genStreamCallback' = 0
  /\ UNCHANGED events

\* handleStreamingChat up to its await
StartStream(r, rq, mems) ==
  LET connected == <<Event("connected", r)>>
      status == <<Event("status", r)>>
      timed == [rq EXCEPT !.ping = TRUE]
  IN \/ /\ req' = [req EXCEPT ![r] = [BuildComposite(r, timed, mems) EXCEPT !.pc = "pipeline"]]
        /\ events' = [events EXCEPT ![r] = connected \o status]
        /\ genStreamCallback' = r
     \/ \* the status write throws
        /\ \E k \in 0..2 : HandlerTail(r, timed, connected, TRUE, k)
        /\ UNCHANGED genStreamCallback
     \/ \* the trace set-up throws
        /\ \E k \in 0..2 :
             HandlerTail(r, BuildComposite(r, timed, mems), connected \o status, TRUE, k)
        /\ UNCHANGED genStreamCallback

\* the session middleware, then the route's handler up to its first await
Arrive(r) ==
  /\ req[r].pc = "new"
  /\ \A a \in 1..(r - 1) : req[a].pc # "new"
  /\ \E kind \in Kinds, sid \in SessionIds, question \in BodyQuestions :
       LET mems == IF sessions[sid] = 0 THEN Append(memories, NewMemory(now)) ELSE memories
           sess == [sessions EXCEPT ![sid] = IF @ = 0 THEN Len(mems) ELSE @]
           rq == [req[r] EXCEPT !.kind = kind, !.session = sid,
                                !.question = question, !.mem = sess[sid]]
       IN /\ memories' = mems
          /\ sessions' = cleanupSessions(sess, mems, now)
          /\ IF ~ValidQuestion(question) THEN Reject(r, rq)
             ELSE IF kind = "buffered" THEN StartBuffered(r, rq, mems)
             ELSE StartStream(r, rq, mems)
  /\ UNCHANGED now
  /\ UNCHANGED pipeVars /\ UNCHANGED memVars

\* generationNode starts: enableStreaming = typeof genStreamCallback === "function"
GenStart(r) ==
  /\ req[r].pc = "pipeline"
  /\ req' = [req EXCEPT ![r].pc = "generating",
                        ![r].enableStreaming = genStreamCallback # 0]
  /\ UNCHANGED <<genStreamCallback, sessions, memories, events, now>>
  /\ UNCHANGED pipeVars /\ UNCHANGED memVars

\* handleLLMNewToken: genStreamCallback?.(token), the callback registered now
Token(r) ==
  /\ req[r].pc = "generating"
  /\ req[r].produced < MaxTokens
  /\ IF req[r].enableStreaming /\ genStreamCallback # 0
       THEN /\ req' = [req EXCEPT ![r].produced = @ + 1,
                                  ![genStreamCallback].fullResponse = Append(@, r)]
            /\ events' = [events EXCEPT ![genStreamCallback] = Append(@, Event("token", r))]
       ELSE /\ req' = [req EXCEPT ![r].produced = @ + 1]
            /\ UNCHANGED events
  /\ UNCHANGED <<genStreamCallback, sessions, memories, now>>
  /\ UNCHANGED pipeVars /\ UNCHANGED memVars

\* invoke returns (its finally clears the callback) and the handler runs on
Finish(r) ==
  /\ req[r].pc = "generating"
  /\ genStreamCallback' = 0
  /\ LET turn == [question |-> req[r].question, by |-> r]
         remembered == Remember(memories, req[r].mem, turn, now)
     IN IF req[r].kind = "buffered"
          THEN /\ memories' = remembered
               /\ req' = [req EXCEPT ![r].pc = "done", ![r].closed = TRUE]
               /\ UNCHANGED events
          ELSE \/ /\ memories' = remembered
                  /\ \E k \in 0..1 :
                       HandlerTail(r, req[r], Append(events[r], Event("complete", r)), FALSE, k)
               \/ \* the complete write throws
                  /\ UNCHANGED memories
                  /\ \E k \in 0..2 : HandlerTail(r, req[r], events[r], TRUE, k)
  /\ UNCHANGED <<sessions, now>>
  /\ UNCHANGED pipeVars /\ UNCHANGED memVars

Pings(r) == Cardinality({i \in 1..Len(events[r]) : events[r][i].type = "ping"})

\* the keepalive interval fires
Ping(r) ==
  /\ req[r].ping
  /\ Pings(r) < MaxPings
  /\ events' = [events EXCEPT ![r] = Append(@, Event("ping", r))]
  /\ UNCHANGED <<genStreamCallback, sessions, memories, req, now>>
  /\ UNCHANGED pipeVars /\ UNCHANGED memVars

\* the caller closes the connection of a stream whose pipeline is running.
\* The handler registers no listener for it: nothing of the request changes,
\* and later writes to the response are accepted and discarded.
Disconnect(r) ==
  /\ req[r].kind = "stream"
  /\ req[r].pc \in {"pipeline", "generating"}
  /\ ~req[r].disconnected
  /\ req' = [req EXCEPT ![r].disconnected = TRUE]
  /\ UNCHANGED <<genStreamCallback, sessions, memories, events, now>>
  /\ UNCHANGED pipeVars /\ UNCHANGED memVars

Tick ==
  /\ now < MaxTime
  /\ now' = now + 1
  /\ UNCHANGED <<genStreamCallback, sessions, memories, req, events>>
  /\ UNCHANGED pipeVars /\ UNCHANGED memVars

Init ==
  /\ genStreamCallback = 0
  /\ sessions = [sid \in SessionIds |-> 0]
  /\ memories = <<>>
  /\ req = [r \in Requests |-> NewRequest]
  /\ events = [r \in Requests |-> <<>>]
  /\ now = 1
  /\ PipeIdle /\ MemIdle

Next ==
  \/ \E r \in Requests : Arrive(r) \/ GenStart(r) \/ Token(r) \/ Finish(r) \/ Ping(r)
                           \/ Disconnect(r)
  \/ Tick

Spec == Init /\ [][Next]_vars

-----------------------------------------------------------------------------
(* Properties of the pipeline, checked under SpecPipe.                     *)

Ran(name) == \E i \in 1..Len(stages) : stages[i] = name
Called(service) == \E i \in 1..Len(calls) : calls[i] = service
Caught == Ran("catch")
Returned == pc = "done" /\ ~Caught

\* query validation returned and left isRelevant falsy
MarkedIrrelevant == Ran("validate") /\ ~Caught /\ ~Truthy(state.isRelevant)

NotRelevantOutput ==
  [response |-> NOT_RELEVANT, needsValidation |-> FALSE, confidence |-> Num(100)]

\* C6: once query validation has marked the query irrelevant, Retrieve and
\* ContextCheck never run (no search and no judge call is made), the generator
\* answers with the fixed not-relevant template, confidence 1.0 and
\* needsValidation false without calling the model, and it would answer the
\* same whatever retrievedDocs, hasAnswer and context held.
C6_IrrelevantSkipsToTemplate ==
  MarkedIrrelevant =>
    /\ ~Ran("retrieve") /\ ~Ran("contextCheck")
    /\ \A i \in 1..Len(calls) : calls[i] = "classifier"
    /\ pc \in {"generate", "done"}
    /\ pc = "generate" =>
         \A docs \in HitLists, h \in FlagValues, out \in GenOutputs :
           LET r == generationNode([state EXCEPT !.retrievedDocs = docs,
                                                 !.hasAnswer = h,
                                                 !.context = DocsContent(docs)], out)
           IN r.ok /\ r.call = "none" /\ r.upd = NotRelevantOutput
    /\ pc = "done" =>
         /\ stages = <<"validate", "generate">>
         /\ genOut = <<NotRelevantOutput @@ [branch |-> "notRelevant"]>>
         /\ state.response = NOT_RELEVANT
         /\ state.confidence = Num(100)
         /\ state.needsValidation = FALSE

C6_Witness ==
  /\ MarkedIrrelevant /\ pc = "done"
  /\ stages = <<"validate", "generate">>
  /\ state.response = NOT_RELEVANT

ErrorMessages ==
  {"Query validation failed", "Failed to parse validation response",
   "Document retrieval failed", "Context validation failed",
   "Failed to parse context validation response",
   "Generated response is too short or empty"}

\* C8: when a stage raises, the catch block is the last thing the orchestrator
\* runs (no later stage, no later call), and it returns the fixed apologetic
\* response with confidence 0.1, isRelevant false, hasAnswer false, no
\* documents, no context, no sources and the error's message in errorMessage.
C8_ErrorState ==
  Caught =>
    /\ pc = "done"
    /\ stages[Len(stages)] = "catch"
    /\ \A i \in 1..(Len(stages) - 1) : stages[i] # "catch"
    /\ state.response = ERROR_RESPONSE
    /\ state.confidence = Num(10)
    /\ state.isRelevant = Bool(FALSE) /\ state.hasAnswer = Bool(FALSE)
    /\ state.retrievedDocs = <<>> /\ state.context = <<>> /\ state.sources = <<>>
    /\ state.needsValidation = FALSE
    /\ state.errorMessage \in ErrorMessages
    /\ state.query = query

\* a retrieval failure after a successful validation
C8_Witness ==
  /\ stages = <<"validate", "retrieve", "catch">>
  /\ state.errorMessage = "Document retrieval failed"
  /\ state.confidence = Num(10)

InUnitInterval(c) == c.t = "num" /\ c.n >= 0 /\ c.n <= 100

\* C9: the confidence of the pipeline state is a number within [0, 1] in the
\* initial state, after every stage and in the final result.
C9_ConfidenceInRange == InUnitInterval(state.confidence)

\* C10: in every state of the pipeline (initial, after each stage, substituted
\* by the catch block) the context is non-empty only if hasAnswer is true.
C10_ContextImpliesAnswer == state.context # <<>> => state.hasAnswer = Bool(TRUE)

\* the judge found the answer and the request returned with its context
C10_Witness ==
  /\ Returned
  /\ state.context # <<>>
  /\ Ran("contextCheck")

\* what the context gate returns for an empty document list
NoDocumentsOutput == [hasAnswer |-> Bool(FALSE), context |-> <<>>, confidence |-> Num(0)]

\* C11: when the state handed to the context gate holds no retrieved document,
\* the gate returns hasAnswer false, confidence 0 and the empty context whatever
\* the judge would have answered, and the judge is not called.
C11_NoDocumentsNoJudge ==
  /\ (pc = "contextCheck" /\ state.retrievedDocs = <<>>) =>
       \A out \in JudgeOutputs :
         LET r == contextCheckNode(state, out)
         IN r.ok /\ ~r.judged /\ r.upd = NoDocumentsOutput
  /\ (pc = "generate" /\ Ran("contextCheck") /\ state.retrievedDocs = <<>>) =>
       /\ state.hasAnswer = Bool(FALSE)
       /\ state.confidence = Num(0)
       /\ state.context = <<>>
  /\ (Ran("contextCheck") /\ ~Caught /\ state.retrievedDocs = <<>>) => ~Called("judge")

\* retrieval kept no document and the context gate has returned
C11_Witness ==
  /\ pc = "generate" /\ Ran("contextCheck")
  /\ state.retrievedDocs = <<>>
  /\ Called("search") /\ ~Called("judge")
  /\ state.confidence = Num(0)

\* the follow-up of a session with a turn went through retrieval with at least
\* one document, the context gate left hasAnswer falsy, and the generator returned
FollowUpSalvageCase ==
  /\ query = Q_MORE_CTX
  /\ Returned /\ genOut # <<>>
  /\ Ran("contextCheck")
  /\ state.retrievedDocs # <<>>
  /\ ~Truthy(state.hasAnswer)

\* C13: for the follow-up "tell me more" asked in a session that holds a turn,
\* when retrieval kept at least one document and the context gate reported
\* insufficient confidence, the generator took the follow-up salvage branch:
\* a grounded generation call over the documents, returned at confidence 0.8.
C13_FollowUpSalvage ==
  FollowUpSalvageCase =>
    /\ genOut[1].branch \in {"followUp", "failed"}
    /\ Called("generate")
    /\ genOut[1].branch = "followUp" => state.confidence = Num(80)

\* some retrieved document holds a fee, cost or currency indicator
HoldsFeeIndicator(docs) ==
  \E i \in 1..Len(docs) : docs[i].has \cap {"fee", "cost", "rs.", "lakh", "rupees"} # {}

\* C14: for the relevant fee question, when a retrieved document holds a fee
\* indicator and the generation call answered, the answer is the text of a
\* grounded generation call and the final confidence is at least 0.7, whatever
\* the context gate's verdict and whatever confidence the judge reported.
C14_FeeAnswerConfidence ==
  ( /\ query = Q_FEE
    /\ Returned /\ genOut # <<>>
    /\ Truthy(state.isRelevant)
    /\ Ran("contextCheck")
    /\ HoldsFeeIndicator(state.retrievedDocs)
    /\ genOut[1].branch # "failed" ) =>
      /\ genOut[1].branch \in {"fee", "grounded"}
      /\ Called("generate")
      /\ state.response = genOut[1].response
      /\ state.confidence.t = "num" /\ state.confidence.n >= 70

\* some retrieved document mentions "18-month"
Mentions18Month(docs) ==
  \E i \in 1..Len(docs) : \E k \in 1..Len(docs[i].months) : docs[i].months[k] = "18-month"

\* C15: for the relevant duration question, when a retrieved document mentions
\* "18-month", the answer is the synthesized sentence stating "18 months", the
\* confidence is exactly 0.9 and no generation call is made, for every verdict
\* of the context gate and every order of the documents.
C15_DurationSynthesis ==
  ( /\ query = Q_DUR
    /\ Returned /\ genOut # <<>>
    /\ Truthy(state.isRelevant)
    /\ Ran("contextCheck")
    /\ Mentions18Month(state.retrievedDocs) ) =>
      /\ state.response = DurationSentence("18 months")
      /\ state.confidence = Num(90)
      /\ ~Called("generate") /\ ~Called("fallback")

\* C16: in the document list the retriever returns, whatever the primary,
\* booster and keyword searches returned, no two documents have the same
\* whitespace-normalized first-200-character content prefix.
C16_NoDuplicatePrefix ==
  (Ran("retrieve") /\ ~Caught /\ pc = "contextCheck") =>
    \A i, j \in 1..Len(state.retrievedDocs) :
      i # j =>
        Trim(CollapseWs(Prefix(state.retrievedDocs[i].pageContent, 200)))
          # Trim(CollapseWs(Prefix(state.retrievedDocs[j].pageContent, 200)))

\* both copies of the fee paragraph were found (by the search and its booster)
\* and the retriever returned one of them
C16_Witness ==
  /\ pc = "contextCheck" /\ Ran("retrieve")
  /\ query = Q_DUR
  /\ calls = <<"classifier", "search", "booster">>
  /\ state.retrievedDocs = <<DocFees>>

\* the threshold C22 states: 0.2 exactly when some entry of the table has one
\* of its keywords in the query and one of its indicators in the documents' text
StatedThreshold(q, docs) ==
  IF \E entry \in {specificQueries[i] : i \in 1..Len(specificQueries)} :
       /\ \E k \in entry.keywords : k \in QueryHas(q)
       /\ \E d \in {docs[i] : i \in 1..Len(docs)} : \E ind \in entry.indicators : ind \in d.has
    THEN 20 ELSE 30

\* the judge's verdict passes the stated threshold
JudgedSufficient(out, q, docs) ==
  Truthy(out.hasAnswer) /\ JsGe(out.confidence, StatedThreshold(q, docs))

\* C22: with at least one retrieved document and a judge answer that parses,
\* the context gate returns hasAnswer true exactly when the judge's hasAnswer
\* holds and the judge's confidence is at least the threshold, the context is
\* the concatenated documents in that case and empty otherwise, and the
\* confidence is the judge's own in both cases; the threshold is 0.2 exactly
\* when a table entry has a keyword in the query and an indicator in the
\* context, and 0.3 otherwise.  The state after the gate holds these values.
C22_GateVerdict ==
  /\ (pc = "contextCheck" /\ state.retrievedDocs # <<>>) =>
       /\ getAdaptiveConfidenceThreshold(state.query, state.retrievedDocs)
            = StatedThreshold(state.query, state.retrievedDocs)
       /\ \A out \in JudgeOutputs :
            out.kind = "json" =>
              LET r == contextCheckNode(state, out)
                  sufficient == JudgedSufficient(out, state.query, state.retrievedDocs)
              IN /\ r.ok /\ r.judged
                 /\ Truthy(r.upd.hasAnswer) = sufficient
                 /\ out.hasAnswer.t = "bool" => r.upd.hasAnswer = Bool(sufficient)
                 /\ r.upd.context = IF sufficient THEN DocsContent(state.retrievedDocs) ELSE <<>>
                 /\ r.upd.confidence = out.confidence
  /\ (pc = "generate" /\ Ran("contextCheck") /\ state.retrievedDocs # <<>>) =>
       /\ state.context = IF Truthy(state.hasAnswer) THEN DocsContent(state.retrievedDocs) ELSE <<>>
       /\ Truthy(state.hasAnswer) =>
            JsGe(state.confidence, StatedThreshold(state.query, state.retrievedDocs))
       /\ state.confidence \in JudgeConfidences

\* the fee question over a fee document passed the gate at the judge's
\* confidence 0.25, which is under 0.3
C22_Witness ==
  /\ pc = "generate" /\ Ran("contextCheck")
  /\ query = Q_FEE
  /\ state.retrievedDocs = <<DocFees>>
  /\ state.hasAnswer = Bool(TRUE)
  /\ state.confidence = Num(25)
  /\ state.context = DocsContent(<<DocFees>>)

StageOrder == <<"validate", "retrieve", "contextCheck", "generate">>
StagePosition(name) == CHOOSE i \in 1..Len(StageOrder) : StageOrder[i] = name
\* the stages entered so far, without the catch marker
StagesRun == SelectSeq(stages, LAMBDA name : name # "catch")
CallCount(services) == Cardinality({i \in 1..Len(calls) : calls[i] \in services})

\* where the orchestrator may stand after the stage it stands at
StageSuccessors(at) ==
  CASE at = "validate"     -> {"retrieve", "generate", "done"}
    [] at = "retrieve"     -> {"contextCheck", "done"}
    [] at = "contextCheck" -> {"generate", "done"}
    [] at = "generate"     -> {"done"}
    [] OTHER               -> {}

\* C23: within one request the stages run one after the other in the order
\* Validate, Retrieve, ContextCheck, Generate: Validate is first, every step of
\* the orchestrator runs exactly the stage it stands at and then stands at a
\* later stage or has returned, the next stage is handed the state the stage
\* before it left (same query), every stage runs at most once, every external
\* service is called at most once, and after a failure nothing runs again.
C23_StagesInOrder ==
  /\ [](/\ \A i, j \in 1..Len(StagesRun) :
             i < j => StagePosition(StagesRun[i]) < StagePosition(StagesRun[j])
        /\ StagesRun # <<>> => StagesRun[1] = "validate"
        /\ CallCount({"classifier"}) <= 1 /\ CallCount({"search"}) <= 1
        /\ CallCount({"booster"}) <= 1 /\ CallCount({"keyword"}) <= 1
        /\ CallCount({"judge"}) <= 1 /\ CallCount({"generate", "fallback"}) <= 1
        /\ Caught => pc = "done")
  /\ [][pc' # pc =>
          /\ pc' \in StageSuccessors(pc)
          /\ stages' \in {Append(stages, pc), stages \o <<pc, "catch">>}
          /\ state'.query = state.query
          /\ stages' = Append(stages, pc) =>
               \A f \in DOMAIN state : f \in DOMAIN state']_vars

\* all four stages ran, the last one failed, and the orchestrator returned
C23_Witness ==
  /\ pc = "done"
  /\ stages = <<"validate", "retrieve", "contextCheck", "generate", "catch">>
  /\ calls = <<"classifier", "search", "judge", "generate">>

\* the generator returned for a relevant query whose context is insufficient
SalvageCase ==
  /\ Returned /\ genOut # <<>>
  /\ Truthy(state.isRelevant)
  /\ ~Truthy(state.hasAnswer) \/ state.context = <<>>

HoldsSocialIndicator(docs) ==
  \E i \in 1..Len(docs) :
    docs[i].has \cap {"abhyudaya", "docc", "social", "community",
                      "underprivileged", "citizenship"} # {}
MentionsMonths(docs) == \E i \in 1..Len(docs) : docs[i].months # <<>>

\* the first applicable salvage, in the stated order
FirstApplicable(q, docs) ==
  IF {"fee", "cost"} \cap QueryHas(q) # {} /\ HoldsFeeIndicator(docs) THEN "fee"
  ELSE IF q \in {Q_MORE, Q_STATS} /\ docs # <<>> THEN "followUp"
  ELSE IF q \in {Q_DUR, Q_MIX} /\ MentionsMonths(docs) THEN "duration"
  ELSE IF q \in {Q_TERM, Q_MIX} /\ HoldsSocialIndicator(docs) THEN "social"
  ELSE "graceful"

RECURSIVE DropRepeats(_)
DropRepeats(seq) ==
  IF seq = <<>> THEN <<>>
  ELSE LET init == DropRepeats(SubSeq(seq, 1, Len(seq) - 1))
           last == seq[Len(seq)]
       IN IF \E i \in 1..Len(init) : init[i] = last THEN init ELSE Append(init, last)

\* the first n elements of a sequence, all of it when it is shorter
FirstN(seq, n) == IF Len(seq) <= n THEN seq ELSE SubSeq(seq, 1, n)

SourcesOf(docs) == [i \in 1..Len(docs) |-> docs[i].source]

\* C26: in the final result of a request the sources are at most 3, pairwise
\* distinct, and they are the first (up to 3) distinct source identifiers of
\* the retrieved documents as reordered, in first-seen order; a request judged
\* irrelevant or ended by a stage error has no sources.
C26_SourcesOfResult ==
  pc = "done" =>
    /\ Len(state.sources) <= 3
    /\ \A i, j \in 1..Len(state.sources) : i # j => state.sources[i] # state.sources[j]
    /\ state.sources = FirstN(DropRepeats(SourcesOf(state.retrievedDocs)), 3)
    /\ (MarkedIrrelevant \/ Caught) => state.sources = <<>>

\* four documents of four sources were retrieved and three sources returned
C26_Witness ==
  /\ pc = "done" /\ ~Caught
  /\ Len(state.retrievedDocs) = 4
  /\ Len(DropRepeats(SourcesOf(state.retrievedDocs))) = 4
  /\ Len(state.sources) = 3
  /\ state.sources[1] = state.retrievedDocs[1].source

\* the filter the keywords of the pipeline's query determine
FilterOfGivenQuery(q) == createRetrievalFilter(QueryHas(q) \cap FilterKeywords)

\* C27: the metadata filter of the primary similarity search is the one the
\* keywords of the query handed to the retriever determine; a query with none
\* of the type keywords is searched with only the programme constant as
\* filter, whatever words the enhancement adds.
C27_FilterFromGivenQuery ==
  Called("search") => filters[1] = FilterOfGivenQuery(query)

\* the questions that are longer than 3 characters and hold no domain keyword
\* and no known term, and the composites the server builds for them
OffTopicQuestions == {q \in {Q_OFF} :
                        /\ Len(StrTrim(q)) > 3
                        /\ ~hasRelevantKeywords(q) /\ ~MentionsProgramme(q)
                        /\ ~isKnownPGPMTerm(q)}
OffTopicComposites ==
  {buildCompositeQuery(q, h) : q \in OffTopicQuestions, h \in {<<>>, <<OffTopicTurn>>}}

\* the classifier judged the query irrelevant
JudgedIrrelevant ==
  /\ Called("classifier")
  /\ answered[1].by = "classifier" /\ answered[1].shaped /\ answered[1].no

\* C28: a question that the classifier judges irrelevant, that is longer than
\* 3 characters and holds no domain keyword or known term is answered with the
\* not-relevant template and triggers no retrieval, whatever turns the memory
\* of its session holds.
C28_GateIgnoresHistory ==
  (query \in OffTopicComposites /\ JudgedIrrelevant) =>
    /\ ~Ran("retrieve") /\ ~Called("search")
    /\ pc = "done" => state.response = NOT_RELEVANT

\* part_006: fullResponse, the tokens the stream callback has appended
RECURSIVE Concat(_)
Concat(tokens) == IF tokens = <<>> THEN "" ELSE Head(tokens) \o Concat(Tail(tokens))
fullResponse == Concat(streamed)

\* the answer of the `complete` frame: result.response || fullResponse
CompleteAnswer == IF state.response # "" THEN state.response ELSE fullResponse

\* C30: in a streaming request, whenever at least one token was emitted, the
\* concatenation of the token contents in emission order equals the answer
\* carried by the `complete` frame, on every generator path.
C30_TokensSpellAnswer ==
  (pc = "done" /\ streamed # <<>>) => fullResponse = CompleteAnswer

\* C20: whenever the classifier's or the judge's answer is not strict JSON of
\* the required shape (unparseable, or with a missing or wrongly typed
\* isRelevant / hasAnswer / confidence), the stage raises: the catch block runs,
\* no later stage runs and the request ends with the degraded 0.1-confidence
\* response; such an answer never yields a verdict.
C20_MalformedIsHardError ==
  \A i \in 1..Len(answered) :
    (answered[i].kind # "throw" /\ ~answered[i].shaped) =>
      /\ Caught /\ pc = "done"
      /\ i = Len(answered)
      /\ state.response = ERROR_RESPONSE
      /\ state.confidence = Num(10)


-----------------------------------------------------------------------------
(* Properties of ConversationMemory, checked under SpecMem.                *)

\* the last n elements of a sequence, all of it when it is shorter
LastN(seq, n) == IF Len(seq) <= n THEN seq ELSE SubSeq(seq, Len(seq) - n + 1, Len(seq))

\* C5: after any sequence of addTurn and clear the history holds at most 10
\* turns, and it is the most recent (up to 10) turns added since the last
\* clear, in insertion order: an addTurn on a full history drops exactly the
\* oldest turn.
C5_HistoryIsLastTen ==
  /\ Len(history) <= 10
  /\ history = LastN(added, 10)

\* two turns were added to a full history
C5_Witness ==
  /\ Len(added) = 12
  /\ Len(history) = 10
  /\ history[1] = added[3]

\* C12 as stated: a question that matches a known term (whatever its case) is
\* returned unchanged; otherwise a follow-up question gets the follow-up
\* framing with the last 5 turns; otherwise the last 2 turns are prepended, and
\* with an empty memory the question is returned unchanged.
C12_AsStated ==
  composed # <<>> =>
    LET question == composed[1].question
        c == composed[1].composite
    IN IF StrLower(question) \in KNOWN_TERMS THEN c = question
       ELSE IF isFollowUpQuery(question)
         THEN c = IF history = <<>> THEN FollowUpAlone(question)
                  ELSE FollowUpWithContext(JoinTurns(LastN(history, 5)), question)
       ELSE c = IF history = <<>> THEN question
                ELSE JoinTurns(LastN(history, 2)) \o "\n\nUser: " \o question

\* what C12, amended, expects for a trimmed, non-blank question q
ExpectedComposite(q, h) ==
  IF StrLower(q) \in KNOWN_TERMS THEN q
  ELSE IF StrLower(q) \in FollowUpPhrases
    THEN IF h = <<>> THEN FollowUpAlone(q)
         ELSE FollowUpWithContext(JoinTurns(LastN(h, 5)), q)
  ELSE IF h = <<>> THEN q
  ELSE JoinTurns(LastN(h, 2)) \o "\n\nUser: " \o q

\* C12, amended: buildCompositeQuery works on the question with its surrounding
\* whitespace removed.  A blank question gives the empty string whatever the
\* memory holds.  Otherwise the precedence is known-term > follow-up > default:
\* a trimmed question that is a known term (in any case) is returned as
\* trimmed whatever turns the memory holds; otherwise a follow-up gets the
\* follow-up framing with the last 5 turns (the one-line variant when the
\* memory is empty); otherwise the last 2 turns are prepended, and with an
\* empty memory the trimmed question is returned.  The result is a function of
\* the question and the memory's turns, and the call leaves the memory as it was.
C12_Precedence ==
  /\ [](composed # <<>> =>
          LET q == StrTrim(composed[1].question)
          IN composed[1].composite = IF q = "" THEN "" ELSE ExpectedComposite(q, history))
  /\ [][(composed' # <<>> /\ composed' # composed) => (history' = history /\ added' = added)]_vars

\* a follow-up was composed on a memory of more than five turns
C12_Witness ==
  /\ composed # <<>>
  /\ composed[1].question = "Tell me more"
  /\ Len(history) = 7
  /\ composed[1].composite = FollowUpWithContext(JoinTurns(SubSeq(history, 3, 7)), "Tell me more")


-----------------------------------------------------------------------------
(* Properties of the server, checked under Spec.                           *)

Count(r, type) == Cardinality({i \in 1..Len(events[r]) : events[r][i].type = type})

\* a streaming request that passed input validation
Streams(r) == req[r].kind = "stream" /\ req[r].pc \notin {"new", "rejected"}
HandlerReturned(r) == req[r].pc \in {"done", "failed", "threw"}

C2_EndsAfterFailure ==
  \A r \in Requests :
    (Streams(r) /\ HandlerReturned(r) /\ Count(r, "connected") = 1) =>
      /\ events[r][Len(events[r])].type = "end"
      /\ req[r].closed

\* C3: every token frame on a request's response was produced by that
\* request's own generation, and every token a streaming request's generation
\* produced is on that request's response.
C3_TokensReachOwnSink ==
  \A r \in Requests :
    /\ \A i \in 1..Len(events[r]) :
         events[r][i].type = "token" => events[r][i].from = r
    /\ Streams(r) => Count(r, "token") = req[r].produced

\* the turns of a memory are stored in the arrival order of their requests
InArrivalOrder(h) == \A i, j \in 1..Len(h) : i < j => h[i].by < h[j].by

\* C4: a request builds its composite query only when no other request of the
\* same session id is in flight, and every memory holds its turns in arrival
\* order.
C4_SerialPerSession ==
  /\ \A r \in Requests : req[r].overlapped = {}
  /\ \A m \in 1..Len(memories) : InArrivalOrder(memories[m].history)

\* C17: a streaming request whose handler has terminated (after complete,
\* after error, or by a throw) has cancelled its heartbeat timer exactly once
\* and the timer is no longer running; no ping follows end on any response.
C17_TimerCancelledOnEveryPath ==
  \A r \in Requests :
    /\ (Streams(r) /\ HandlerReturned(r)) => (req[r].cancels = 1 /\ ~req[r].ping)
    /\ req[r].cancels <= 1
    /\ \A i, j \in 1..Len(events[r]) :
         (i < j /\ events[r][i].type = "end") => events[r][j].type # "ping"

\* C18: once the caller of a stream has disconnected (after connected, before
\* the pipeline finished), the heartbeat timer is cancelled and the generation
\* stopped: from then on no ping is written to that response, and no token is
\* produced for that request or written to its response.
C18_DisconnectReleases ==
  [][\A r \in Requests :
       req[r].disconnected =>
         /\ Count(r, "ping")' = Count(r, "ping")
         /\ Count(r, "token")' = Count(r, "token")
         /\ req'[r].produced = req[r].produced]_vars

\* a request is handled in this step: the session middleware has run
RequestHandled == \E r \in Requests : req[r].pc = "new" /\ req'[r].pc # "new"
\* the session of the request handled in this step
HandledFor(sid) ==
  \E r \in Requests : req[r].pc = "new" /\ req'[r].pc # "new" /\ req'[r].session = sid

\* the last activity of a session: its last completed turn, and for a session
\* that never completed one, its creation
LastActive(m) == IF m.lastActivity # 0 THEN m.lastActivity ELSE m.created

\* C19: whenever a request is handled, every session whose last activity lies
\* further back than the inactivity window is removed from the session table,
\* whether or not it ever completed a turn, and no session whose last activity
\* lies inside the window is removed.  (The session of the request being
\* handled is active now by any reading, so the first part is stated for the
\* other sessions.)
C19_ExpiryOnRequest ==
  [][RequestHandled =>
       \A sid \in SessionIds :
         /\ (sessions'[sid] # 0 /\ ~HandledFor(sid)) =>
              now - LastActive(memories'[sessions'[sid]]) <= sessionTimeout
         /\ (sessions[sid] # 0 /\ now - LastActive(memories[sessions[sid]]) <= sessionTimeout) =>
              sessions'[sid] = sessions[sid]]_vars

\* a question that is absent, empty or not a string
Malformed(question) == question.t # "str" \/ question = Str("")

\* C21: a chat request, buffered or streaming, whose question is absent, empty
\* or not a string is rejected before anything else happens: it never enters
\* the pipeline, no frame (not even connected) is written to its response, no
\* heartbeat timer is started for it, and handling it leaves the turns of
\* every memory, its own session's included, as they were.
C21_InvalidQuestionRejected ==
  /\ [](\A r \in Requests :
          (req[r].pc # "new" /\ Malformed(req[r].question)) =>
            /\ req[r].pc = "rejected"
            /\ events[r] = <<>>
            /\ ~req[r].ping /\ req[r].cancels = 0
            /\ req[r].produced = 0 /\ req[r].fullResponse = <<>> /\ req[r].seen = <<>>)
  /\ [][\A r \in Requests :
          (req[r].pc = "new" /\ req'[r].pc # "new" /\ Malformed(req'[r].question)) =>
            /\ \A m \in 1..Len(memories) : memories'[m].history = memories[m].history
            /\ \A m \in (Len(memories) + 1)..Len(memories') : memories'[m].history = <<>>
            /\ events' = events]_vars

\* a streaming request with a number for a question was rejected on a session
\* that holds a turn
C21_Witness ==
  \E r \in Requests :
    /\ req[r].pc = "rejected" /\ req[r].kind = "stream"
    /\ req[r].question = Num(7)
    /\ req[r].mem # 0 /\ memories[req[r].mem].history # <<>>

\* request r delivers its answer in this step: the complete frame of a stream
\* is written, or the buffered response is sent
Delivers(r) ==
  \/ req[r].kind = "stream" /\ Count(r, "complete")' = Count(r, "complete") + 1
  \/ req[r].kind = "buffered" /\ req[r].pc = "generating" /\ req'[r].pc = "done"

HistoriesUnchanged(ms) == \A m \in ms : memories'[m].history = memories[m].history

\* C25: a chat request that delivers its answer appends, in that step, exactly
\* one turn to the memory of its own session, the one the session table holds
\* for its session id, and the turn holds the question as the caller sent it
\* and the answer delivered by this request; it changes no other memory.  A
\* step that delivers no answer (a rejection, a failure ending in an error
\* frame, any other step) changes no memory's turns.
C25_OneTurnPerAnswer ==
  [][/\ \A r \in Requests :
          Delivers(r) =>
            LET m == sessions'[req[r].session]
            IN /\ m # 0
               /\ memories'[m].history
                    = addTurn(memories[m].history, [question |-> req[r].question, by |-> r])
               /\ HistoriesUnchanged(1..Len(memories) \ {m})
     /\ (\A r \in Requests : ~Delivers(r)) => HistoriesUnchanged(1..Len(memories))]_vars

\* the session of this id is past its inactivity window
Expired(sid) ==
  sessions[sid] # 0 /\ now - LastActive(memories[sessions[sid]]) > sessionTimeout

\* request r is accepted in this step
Accepted(r) == req[r].pc = "new" /\ req'[r].pc \notin {"new", "rejected"}

\* C29: the memory a request works on is the one the session table holds for
\* its session id.  A request accepted on a session that is past its
\* inactivity window does not read the expired turns for its composite query,
\* and a request that appends its turn appends it to the memory the table
\* holds for its session id, so that the next request of the session sees it.
C29_WorksOnTableMemory ==
  [][\A r \in Requests :
       /\ Accepted(r) =>
            /\ req'[r].mem = sessions'[req'[r].session]
            /\ Expired(req'[r].session) => req'[r].seen = <<>>
       /\ Delivers(r) => req[r].mem = sessions'[req[r].session]]_vars

============================================================================
